---- MODULE Spec2Model ----
(***************************************************************************)
(* Model of the ynab-sync backend: the deduplication ledger                *)
(* (services/dedup.py), the scheduled sync job and the APScheduler job     *)
(* store (services/scheduler.py), the manual sync and schedule endpoints   *)
(* (routers/akahu.py), the CSV import endpoint (routers/csv.py) and the    *)
(* YNAB gateway client (services/ynab_client.py).                          *)
(*                                                                         *)
(* Strings are sequences of one-character strings; Optional[str] adds the  *)
(* value None.  Datetimes are integer hours on one clock.  The SHA-256     *)
(* digest prefix is modelled as injective on its input string, so a        *)
(* fingerprint is the formatted hash input itself.                         *)
(***************************************************************************)
EXTENDS Integers, Sequences, FiniteSets, TLC

(***************************************************************************)
(* Bounds of the exploration                                               *)
(***************************************************************************)
MaxTime == 1
MaxOps == 2
MaxFetch == 2

(***************************************************************************)
(* Values                                                                  *)
(***************************************************************************)
Accts == {"a1", "a2"}
YAccts == {"y1"}

\* intervals of the schedules enabled before the first step
StartIntervals == {1}

None == <<"<None>">>
NoTime == -1

\* Python truthiness of an Optional[str]
Truthy(s) == s # None /\ s # <<>>

\* Python `x or y`
PyOr(x, y) == IF Truthy(x) THEN x ELSE y

\* Python s[:n]
Prefix(s, n) == IF Len(s) <= n THEN s ELSE SubSeq(s, 1, n)

PayeeMaxLen == 50

HoursPerDay == 24

Min2(a, b) == IF a <= b THEN a ELSE b

(***************************************************************************)
(* Fingerprint                                                             *)
(***************************************************************************)
\* a formula that renders the fields as they are: f"{date}:{amount}:{payee}:{memo}"
generate_hash_plain(date, amount, payee, memo) ==
    <<"D", date, ":", "A", amount, ":">> \o payee \o <<":">> \o memo

\* f"{date.isoformat()}:{amount}:{payee or ''}:{memo or ''}" ; sha256(...)[:32]
generate_hash(date, amount, payee, memo) ==
    <<"D", date, ":", "A", amount, ":">> \o PyOr(payee, <<>>) \o <<":">> \o PyOr(memo, <<>>)

\* CSVParser.generate_transaction_hash: the same formula in the file-upload path
generate_transaction_hash(date, amount, payee, memo) ==
    <<"D", date, ":", "A", amount, ":">> \o PyOr(payee, <<>>) \o <<":">> \o PyOr(memo, <<>>)

(***************************************************************************)
(* Inputs: what the aggregation provider and an uploaded file can contain  *)
(***************************************************************************)
\* The transactions the provider holds for an account, oldest first.  The
\* first two are distinct provider transactions with the same visible fields.
AkahuHistory(a) ==
    << [id |-> <<a, "t1">>, date |-> 1, amount |-> 10, merchant |-> <<"m">>, description |-> <<"d">>],
       [id |-> <<a, "t2">>, date |-> 1, amount |-> 10, merchant |-> <<"m">>, description |-> <<"d">>],
       [id |-> <<a, "t3">>, date |-> 1, amount |-> 10, merchant |-> None,    description |-> <<"e">>] >>

\* The rows of the uploaded statement, as parsed (date, amount, payee, memo);
\* the first has the four fields that the sync path derives from t1, the
\* second is dated on the following day.
CsvStatement ==
    << [date |-> 1, amount |-> 10, payee |-> <<"m">>, memo |-> <<"d">>],
       [date |-> HoursPerDay + 1, amount |-> 10, payee |-> <<"m">>, memo |-> None] >>

\* the contiguous windows of s of length at most n
Windows(s, n) ==
    {<<>>} \cup { SubSeq(s, i, j) : <<i, j>> \in
                    { w \in (1..Len(s)) \X (1..Len(s)) : w[1] <= w[2] /\ w[2] - w[1] < n } }

\* what a fetch over some lookback window can return
Feeds(a) == Windows(AkahuHistory(a), MaxFetch)

\* what an upload can contain
CsvFiles == Windows(CsvStatement, MaxFetch)

AkahuTxs(a) == { AkahuHistory(a)[i] : i \in 1..Len(AkahuHistory(a)) }
CsvRows == { CsvStatement[i] : i \in 1..Len(CsvStatement) }

(***************************************************************************)
(* Conversions of the two source paths to TransactionCreate                *)
(***************************************************************************)
\* payee=tx.merchant or tx.description[:50] if tx.description else None
AkahuPayee(tx) ==
    IF Truthy(tx.description)
    THEN PyOr(tx.merchant, Prefix(tx.description, PayeeMaxLen))
    ELSE None

\* TransactionCreate(...) built in the sync loops (scheduler.py and routers/akahu.py)
AkahuToCreate(tx, a) ==
    [date |-> tx.date, amount |-> tx.amount, payee |-> AkahuPayee(tx),
     memo |-> tx.description, source |-> "akahu", source_account |-> a,
     source_transaction_id |-> tx.id]

\* the hash the sync loops test against existing_hashes:
\* dedup.generate_hash(tx.date, tx.amount, tx.merchant or tx.description)
SyncFilterHash(tx) ==
    generate_hash(tx.date, tx.amount, PyOr(tx.merchant, tx.description), None)

\* TransactionCreate(...) built by import_csv_transactions
CsvToCreate(row) ==
    [date |-> row.date, amount |-> row.amount, payee |-> row.payee,
     memo |-> row.memo, source |-> "csv", source_account |-> "",
     source_transaction_id |-> <<"null">>]

\* the fingerprint of a candidate: the hash of its four fields
Fingerprint(tc) == generate_hash(tc.date, tc.amount, tc.payee, tc.memo)

SeqMap(F(_), s) == [i \in 1..Len(s) |-> F(s[i])]

RECURSIVE SeqFilter(_, _)
SeqFilter(keep, s) ==
    IF s = <<>> THEN <<>>
    ELSE IF keep[1] THEN <<s[1]>> \o SeqFilter(Tail(keep), Tail(s))
         ELSE SeqFilter(Tail(keep), Tail(s))

Range(s) == { s[i] : i \in 1..Len(s) }

AllCreates ==
    UNION { { AkahuToCreate(tx, a) : tx \in AkahuTxs(a) } : a \in Accts }
      \cup { CsvToCreate(r) : r \in CsvRows }

AllFingerprints == { Fingerprint(tc) : tc \in AllCreates }

(***************************************************************************)
(* State                                                                   *)
(***************************************************************************)
VARIABLES
    now,        \* the clock (datetime.utcnow / datetime.now), in hours
    accounts,   \* table akahu_accounts, by akahu_account_id
    syncLogs,   \* table sync_logs, in id order
    ledger,     \* table imported_transactions, in id order
    jobs,       \* the APScheduler job store: job sync_<account>
    ynab,       \* import ids the ledger provider holds, per YNAB account
    pc,         \* position of each task
    loc,        \* local variables of each task
    imported,   \* per fingerprint, finished import operations that carried it
    ops         \* operations started so far

vars == <<now, accounts, syncLogs, ledger, jobs, ynab, pc, loc, imported, ops>>

Sched(a) == <<"sched", a>>
Manual(a) == <<"manual", a>>
Csv == <<"csv", "">>
Tasks == { Sched(a) : a \in Accts } \cup { Manual(a) : a \in Accts } \cup {Csv}

\* no row
NoRow ==
    [exists |-> FALSE, ynab_account_id |-> "", schedule_enabled |-> FALSE,
     schedule_interval_hours |-> 6, schedule_days_to_sync |-> 7,
     next_sync_at |-> NoTime, last_sync_status |-> "null",
     last_sync_message |-> <<"null">>, last_sync_imported |-> 0,
     last_synced_at |-> NoTime]

\* AkahuAccount(...) as created by link_akahu_to_ynab, with the column defaults
NewRow(y) == [NoRow EXCEPT !.exists = TRUE, !.ynab_account_id = y]

NoJob == [interval |-> 0, next_run_time |-> NoTime]

\* no request was sent to the ledger provider
NoRequest == <<"none">>

Idle ==
    [link_y |-> "", link_interval |-> 0, log |-> 0, cands |-> <<>>,
     txs |-> <<>>, skipped |-> 0, ids |-> <<>>, dups |-> 0, request |-> NoRequest]

\* a row as left by link_akahu_to_ynab and, when enabled, by
\* set_account_schedule(enabled=True, interval_hours=h) at time 0
StartRow(y, enabled, h) ==
    [NewRow(y) EXCEPT !.schedule_enabled = enabled,
                      !.schedule_interval_hours = IF enabled THEN h ELSE 6,
                      !.next_sync_at = IF enabled THEN h ELSE NoTime]

StartConfigs == { <<e, h>> \in BOOLEAN \X StartIntervals : e \/ h = 1 }

\* the state after startup in which the accounts of `linked` have a row,
\* with the schedule settings cfg, and the enabled ones have their job armed
Started(linked, cfg) ==
    /\ now = 0
    /\ accounts = [a \in Accts |->
           IF a \in linked
           THEN StartRow(CHOOSE y \in YAccts : TRUE, cfg[a][1], cfg[a][2])
           ELSE NoRow]
    /\ jobs = [a \in Accts |->
           IF a \in linked /\ cfg[a][1]
           THEN [interval |-> cfg[a][2], next_run_time |-> cfg[a][2]]
           ELSE NoJob]
    /\ syncLogs = <<>>
    /\ ledger = <<>>
    /\ ynab = {}
    /\ pc = [t \in Tasks |-> "idle"]
    /\ loc = [t \in Tasks |-> Idle]
    /\ imported = [f \in AllFingerprints |-> 0]
    /\ ops = 0

\* the account the single-account specification follows
Focus == {"a1"}

\* The process has started on an empty ledger; the account is unlinked, or
\* linked, or linked with its schedule enabled and its job armed.
Init == \E linked \in SUBSET Focus : \E cfg \in [linked -> StartConfigs] : Started(linked, cfg)

\* The process has started on an empty ledger with every account linked and
\* scheduled every hour.
InitTwo == Started(Accts, [a \in Accts |-> <<TRUE, 1>>])

(***************************************************************************)
(* Deduplication ledger                                                    *)
(***************************************************************************)
\* DeduplicationService.get_existing_hashes
get_existing_hashes == { ledger[i].transaction_hash : i \in 1..Len(ledger) }

\* ynab_ids = ynab_transaction_ids or [None] * len(transactions)
PadIds(txs, ids) == IF ids = <<>> THEN [i \in 1..Len(txs) |-> <<"null">>] ELSE ids

\* the rows record_imports_batch adds to the session: zip(transactions, ynab_ids)
BatchRows(txs, y, ids) ==
    LET ynab_ids == PadIds(txs, ids)
    IN  [i \in 1..Min2(Len(txs), Len(ynab_ids)) |->
            [transaction_hash |-> generate_hash(txs[i].date, txs[i].amount,
                                                txs[i].payee, txs[i].memo),
             date |-> txs[i].date, amount |-> txs[i].amount,
             payee |-> txs[i].payee, memo |-> txs[i].memo,
             source |-> txs[i].source, source_account |-> txs[i].source_account,
             source_transaction_id |-> txs[i].source_transaction_id,
             ynab_account_id |-> y, ynab_transaction_id |-> ynab_ids[i]]]

\* transaction_hash = Column(String(64), unique=True, ...): the INSERTs of one
\* commit are accepted only if no hash repeats, in the table or in the batch
UniqueOk(table, rows) ==
    /\ \A i \in 1..Len(rows) : \A j \in 1..Len(table) :
           rows[i].transaction_hash # table[j].transaction_hash
    /\ \A i, j \in 1..Len(rows) :
           i # j => rows[i].transaction_hash # rows[j].transaction_hash

\* a table without the unique constraint: every INSERT is accepted
CommitBatchNoUnique(table, rows) == table \o rows

\* session.commit() in record_imports_batch: the table after the commit, or
\* the unchanged table when the commit raises IntegrityError and rolls back
CommitBatch(table, rows) == IF UniqueOk(table, rows) THEN table \o rows ELSE table

(***************************************************************************)
(* Ledger import gateway (YNABClient and the provider behind it)           *)
(***************************************************************************)
MilliPerUnit == 1000

\* int(round(amount * 1000))
dollars_to_milliunits(amount) == amount * MilliPerUnit

\* tx_date.date()
DateOf(dt) == dt \div HoursPerDay

\* f"YNAB:{amount}:{date.isoformat()}:{occurrence}"
generate_import_id(date, amount, occurrence) == <<"YNAB", amount, date, occurrence>>

\* a gateway client without the occurrence counter
OccurrenceOne(txs, i) == 1

\* the import_id_counts bookkeeping of create_transactions: the i-th row's
\* occurrence is the number of rows up to i with its (milliunits, date)
Occurrence(txs, i) ==
    Cardinality({ j \in 1..i :
        /\ dollars_to_milliunits(txs[j].amount) = dollars_to_milliunits(txs[i].amount)
        /\ DateOf(txs[j].date) = DateOf(txs[i].date) })

\* a client whose occurrence counter goes on from the keys the destination
\* already holds
ImportIdsContinued(txs) ==
    [i \in 1..Len(txs) |->
        generate_import_id(DateOf(txs[i].date), dollars_to_milliunits(txs[i].amount),
                           Occurrence(txs, i) +
                           Cardinality({ e \in ynab :
                               /\ e[2][2] = dollars_to_milliunits(txs[i].amount)
                               /\ e[2][3] = DateOf(txs[i].date) }))]

\* import_id = self.generate_import_id(tx.date.date(), milliunits, occurrence)
\* for every row of the batch, in order
ImportIds(txs) ==
    [i \in 1..Len(txs) |->
        generate_import_id(DateOf(txs[i].date), dollars_to_milliunits(txs[i].amount),
                           Occurrence(txs, i))]

\* response of POST /budgets/{id}/transactions: rows whose import_id the
\* account already holds are reported in duplicate_import_ids, the others are
\* created and returned in request order
CreatedKeys(y, txs) ==
    LET keys == ImportIds(txs)
    IN  SeqFilter([i \in 1..Len(keys) |-> <<y, keys[i]>> \notin ynab], keys)

DuplicateKeys(y, txs) ==
    LET keys == ImportIds(txs)
    IN  SeqFilter([i \in 1..Len(keys) |-> <<y, keys[i]>> \in ynab], keys)

\* a client that reads no ids from the response
CreatedIdsNone(y, txs) == <<>>

\* created_ids = [tx["id"] for tx in result.get("transactions", [])]
CreatedIds(y, txs) == SeqMap(LAMBDA k : <<"id", y, k>>, CreatedKeys(y, txs))

YnabAfter(y, txs) == ynab \cup { <<y, k>> : k \in Range(ImportIds(txs)) }

\* a client that posts whatever it is given, the empty list included
import_transactions_posts(y, txs) ==
    [transaction_ids |-> CreatedIds(y, txs),
     duplicate_import_ids |-> DuplicateKeys(y, txs),
     request |-> <<"POST", y, ImportIds(txs)>>]

\* YNABClient.import_transactions: the result, and the request it sent to
\* POST /budgets/{id}/transactions; nothing is sent for an empty list
import_transactions(y, txs) ==
    IF txs = <<>>
    THEN [transaction_ids |-> <<>>, duplicate_import_ids |-> <<>>, request |-> NoRequest]
    ELSE [transaction_ids |-> CreatedIds(y, txs),
          duplicate_import_ids |-> DuplicateKeys(y, txs),
          request |-> <<"POST", y, ImportIds(txs)>>]

(***************************************************************************)
(* Link and schedule endpoints (routers/akahu.py) and the job store        *)
(***************************************************************************)
ValidIntervals == <<1, 2, 4, 6, 12, 24>>
ReqIntervals == {1, 3}

\* ScheduleConfig.interval_hours: Field(ge=1, le=24)
MinHours == 1
MaxHours == 24
HoursRange == MinHours..MaxHours

\* AkahuAccountLink.ynab_account_id: any str, the empty one included
LinkIds == YAccts \cup {""}

Abs(x) == IF x < 0 THEN -x ELSE x

\* the requested interval stored as it comes
SnapKeep(h) == h

\* min(valid_intervals, key=lambda x: abs(x - h)): the first minimiser
Snap(h) ==
    IF h \in Range(ValidIntervals) THEN h
    ELSE LET best == CHOOSE i \in 1..Len(ValidIntervals) :
                 /\ \A j \in 1..Len(ValidIntervals) :
                        Abs(ValidIntervals[i] - h) <= Abs(ValidIntervals[j] - h)
                 /\ \A j \in 1..(i - 1) :
                        Abs(ValidIntervals[j] - h) > Abs(ValidIntervals[i] - h)
         IN  ValidIntervals[best]

\* link_akahu_to_ynab
Link(a, y) ==
    /\ accounts' = [accounts EXCEPT ![a] =
            IF accounts[a].exists THEN [accounts[a] EXCEPT !.ynab_account_id = y]
            ELSE NewRow(y)]
    /\ UNCHANGED <<now, syncLogs, ledger, jobs, ynab, pc, loc, imported>>
    /\ ops < MaxOps
    /\ ops' = ops + 1

\* unlink_akahu_account
Unlink(a) ==
    /\ accounts[a].exists
    /\ accounts' = [accounts EXCEPT ![a] = NoRow]
    /\ UNCHANGED <<now, syncLogs, ledger, jobs, ynab, pc, loc, imported>>
    /\ ops < MaxOps
    /\ ops' = ops + 1

\* add the job only when the store has none for the account
schedule_account_sync_keep(a, enabled, interval) ==
    IF jobs[a] # NoJob THEN jobs
    ELSE [jobs EXCEPT ![a] = IF enabled
                             THEN [interval |-> interval, next_run_time |-> now + interval]
                             ELSE NoJob]

\* schedule_account_sync: remove the job, add it again when enabled
schedule_account_sync(a, enabled, interval) ==
    [jobs EXCEPT ![a] = IF enabled
                        THEN [interval |-> interval, next_run_time |-> now + interval]
                        ELSE NoJob]

\* a removal that leaves the job in the store
remove_account_schedule_noop(a) == jobs

\* remove_account_schedule
remove_account_schedule(a) == [jobs EXCEPT ![a] = NoJob]

\* set_account_schedule
SetSchedule(a, enabled, hours) ==
    /\ accounts[a].exists
    /\ accounts[a].ynab_account_id # ""
    /\ LET interval == Snap(hours)
       IN  /\ accounts' = [accounts EXCEPT ![a] =
                  [@ EXCEPT !.schedule_enabled = enabled,
                            !.schedule_interval_hours = interval,
                            !.schedule_days_to_sync = 7,
                            !.next_sync_at = IF enabled THEN now + interval ELSE NoTime]]
           /\ jobs' = IF enabled THEN schedule_account_sync(a, TRUE, interval)
                      ELSE remove_account_schedule(a)
    /\ UNCHANGED <<now, syncLogs, ledger, ynab, pc, loc, imported>>
    /\ ops < MaxOps
    /\ ops' = ops + 1

\* the checks of lines 344-351 placed after the update and its commit
SetScheduleRejectedLate(a, enabled, hours) ==
    /\ ~accounts[a].exists \/ accounts[a].ynab_account_id = ""
    /\ ops < MaxOps
    /\ ops' = ops + 1
    /\ accounts' = [accounts EXCEPT ![a] =
           IF ~accounts[a].exists THEN @
           ELSE [@ EXCEPT !.schedule_enabled = enabled,
                          !.schedule_interval_hours = Snap(hours),
                          !.schedule_days_to_sync = 7,
                          !.next_sync_at = IF enabled THEN now + Snap(hours) ELSE NoTime]]
    /\ UNCHANGED <<now, syncLogs, ledger, jobs, ynab, pc, loc, imported>>

\* set_account_schedule, lines 344-351: no row (404) or a row without a
\* ynab_account_id (400); the request is refused before anything is written
SetScheduleRejected(a, enabled, hours) ==
    /\ ~accounts[a].exists \/ accounts[a].ynab_account_id = ""
    /\ ops < MaxOps
    /\ ops' = ops + 1
    /\ UNCHANGED <<now, accounts, syncLogs, ledger, jobs, ynab, pc, loc, imported>>

\* the row is updated but the job stays in the store
DisableScheduleKeepsJob(a) ==
    /\ accounts[a].exists
    /\ accounts' = [accounts EXCEPT ![a] =
           [@ EXCEPT !.schedule_enabled = FALSE, !.next_sync_at = NoTime]]
    /\ UNCHANGED <<now, syncLogs, ledger, jobs, ynab, pc, loc, imported>>
    /\ ops < MaxOps
    /\ ops' = ops + 1

\* disable_account_schedule
DisableSchedule(a) ==
    /\ accounts[a].exists
    /\ accounts' = [accounts EXCEPT ![a] =
           [@ EXCEPT !.schedule_enabled = FALSE, !.next_sync_at = NoTime]]
    /\ jobs' = remove_account_schedule(a)
    /\ UNCHANGED <<now, syncLogs, ledger, ynab, pc, loc, imported>>
    /\ ops < MaxOps
    /\ ops' = ops + 1

Due(a) == jobs[a] # NoJob /\ jobs[a].next_run_time <= now

\* time passes; a due job is run by the scheduler before the clock moves on
Tick ==
    /\ now < MaxTime
    /\ \A a \in Accts : ~Due(a)
    /\ now' = now + 1
    /\ UNCHANGED <<accounts, syncLogs, ledger, jobs, ynab, pc, loc, imported, ops>>

\* the interval trigger of job sync_<a> fires; job_defaults max_instances=1:
\* the run is skipped when an instance of the job is still executing
TimerFire(a) ==
    /\ Due(a)
    /\ ops < MaxOps
    /\ jobs' = [jobs EXCEPT ![a].next_run_time = now + jobs[a].interval]
    /\ IF pc[Sched(a)] = "idle"
       THEN /\ pc' = [pc EXCEPT ![Sched(a)] = "start"]
            /\ ops' = ops + 1
       ELSE UNCHANGED <<pc, ops>>
    /\ UNCHANGED <<now, accounts, syncLogs, ledger, ynab, loc, imported>>

(***************************************************************************)
(* The sync pipeline shared by the scheduled job and the manual endpoint   *)
(***************************************************************************)
\* the texts written to last_sync_message
MsgNoTransactions == <<"No transactions found">>
MsgAllDuplicates(skipped) == <<"All ", skipped, " transactions were duplicates">>
MsgImported(n) == <<"Imported ", n, " transactions">>
MsgException == <<"exception">>

\* a log row created already closed
NewLogStamped(a, trigger) ==
    [akahu_account_id |-> a, status |-> "running", trigger |-> trigger,
     started_at |-> now, completed_at |-> now, transactions_found |-> 0,
     transactions_imported |-> 0, transactions_skipped |-> 0,
     ynab_duplicates |-> 0, error_message |-> "null"]

\* SyncLog(akahu_account_id=..., status='running', trigger=...)
NewLog(a, trigger) ==
    [akahu_account_id |-> a, status |-> "running", trigger |-> trigger,
     started_at |-> now, completed_at |-> NoTime, transactions_found |-> 0,
     transactions_imported |-> 0, transactions_skipped |-> 0,
     ynab_duplicates |-> 0, error_message |-> "null"]

\* the loop `for tx in transactions:` of both sync paths: which fetched rows
\* are kept for import, given the snapshot of existing hashes
KeepFlags(feed, existing, skip_duplicates) ==
    [i \in 1..Len(feed) |-> ~(skip_duplicates /\ SyncFilterHash(feed[i]) \in existing)]

ToImport(feed, a, keep) == SeqFilter(keep, SeqMap(LAMBDA tx : AkahuToCreate(tx, a), feed))

\* a loop that never counts a skipped row
CountFalseNone(keep) == 0

\* skipped += 1 for every row the loop drops
CountFalse(keep) == Cardinality({ i \in 1..Len(keep) : ~keep[i] })

\* one more finished import operation for every fingerprint among cands
Bump(cands) ==
    [f \in AllFingerprints |->
        IF \E i \in 1..Len(cands) : Fingerprint(cands[i]) = f
        THEN Min2(imported[f] + 1, 2) ELSE imported[f]]

Finish(t) ==
    /\ pc' = [pc EXCEPT ![t] = "idle"]
    /\ loc' = [loc EXCEPT ![t] = Idle]

(***************************************************************************)
(* sync_akahu_account_job (services/scheduler.py)                          *)
(***************************************************************************)
\* lines 47-71: load the link, open the log row, mark the account running
SchedStart(a) ==
    LET t == Sched(a)
        link == accounts[a]
    IN  /\ pc[t] = "start"
        /\ IF ~link.exists \/ link.ynab_account_id = ""
           THEN /\ Finish(t)
                /\ UNCHANGED <<accounts, syncLogs>>
           ELSE /\ syncLogs' = Append(syncLogs, NewLog(a, "scheduled"))
                /\ accounts' = [accounts EXCEPT ![a].last_sync_status = "running"]
                /\ pc' = [pc EXCEPT ![t] = "fetch"]
                /\ loc' = [loc EXCEPT ![t] =
                       [Idle EXCEPT !.link_y = link.ynab_account_id,
                                    !.link_interval = link.schedule_interval_hours,
                                    !.log = Len(syncLogs) + 1]]
        /\ UNCHANGED <<now, ledger, jobs, ynab, imported, ops>>

\* a job whose fetch failure escapes and stops the scheduler: every trigger
\* is lost
SchedFetchFailShutdown(a) ==
    LET t == Sched(a)
    IN  /\ pc[t] = "fetch"
        /\ jobs' = [b \in Accts |-> NoJob]
        /\ accounts' = [accounts EXCEPT ![a].last_sync_status = "failed"]
        /\ Finish(t)
        /\ UNCHANGED <<now, syncLogs, ledger, ynab, imported, ops>>

\* lines 83-91: the fetch raised
SchedFetchFail(a) ==
    LET t == Sched(a)
    IN  /\ pc[t] = "fetch"
        /\ IF accounts[a].exists
           THEN /\ syncLogs' = [syncLogs EXCEPT ![loc[t].log] =
                       [@ EXCEPT !.status = "failed", !.error_message = "fetch",
                                 !.completed_at = now]]
                /\ accounts' = [accounts EXCEPT ![a] =
                       [@ EXCEPT !.last_sync_status = "failed",
                                 !.last_sync_message = <<"fetch">>]]
           ELSE UNCHANGED <<syncLogs, accounts>>
        /\ Finish(t)
        /\ UNCHANGED <<now, ledger, jobs, ynab, imported, ops>>

\* a job that treats a fetch of no transactions as a failed run
SchedFetchEmptyFails(a, feed) ==
    LET t == Sched(a)
        keep == KeepFlags(feed, get_existing_hashes, TRUE)
        to_import == ToImport(feed, a, keep)
        skipped == CountFalse(keep)
        cands == SeqMap(LAMBDA tx : AkahuToCreate(tx, a), feed)
    IN  /\ pc[t] = "fetch"
        /\ IF to_import = <<>>
           THEN /\ IF accounts[a].exists
                   THEN /\ syncLogs' = [syncLogs EXCEPT ![loc[t].log] =
                               [@ EXCEPT !.status = IF feed = <<>> THEN "failed" ELSE "success",
                                         !.completed_at = now,
                                         !.transactions_found = Len(feed),
                                         !.transactions_skipped = skipped,
                                         !.transactions_imported = 0]]
                        /\ accounts' = [accounts EXCEPT ![a] =
                               [@ EXCEPT !.last_sync_status =
                                             IF feed = <<>> THEN "failed" ELSE "success",
                                         !.last_sync_message =
                                             IF feed = <<>> THEN MsgNoTransactions
                                             ELSE MsgAllDuplicates(skipped),
                                         !.last_sync_imported = 0,
                                         !.last_synced_at = now,
                                         !.next_sync_at = now + loc[t].link_interval]]
                   ELSE UNCHANGED <<syncLogs, accounts>>
                /\ Finish(t)
                /\ imported' = Bump(cands)
           ELSE /\ pc' = [pc EXCEPT ![t] = "import"]
                /\ loc' = [loc EXCEPT ![t] =
                       [@ EXCEPT !.cands = cands, !.txs = to_import, !.skipped = skipped]]
                /\ UNCHANGED <<syncLogs, accounts, imported>>
        /\ UNCHANGED <<now, ledger, jobs, ynab, ops>>

\* lines 93-153: the fetch returned; count, filter against the ledger snapshot
SchedFetch(a, feed) ==
    LET t == Sched(a)
        keep == KeepFlags(feed, get_existing_hashes, TRUE)
        to_import == ToImport(feed, a, keep)
        skipped == CountFalse(keep)
        cands == SeqMap(LAMBDA tx : AkahuToCreate(tx, a), feed)
    IN  /\ pc[t] = "fetch"
        /\ IF to_import = <<>>
           THEN /\ IF accounts[a].exists
                   THEN /\ syncLogs' = [syncLogs EXCEPT ![loc[t].log] =
                               [@ EXCEPT !.status = "success", !.completed_at = now,
                                         !.transactions_found = Len(feed),
                                         !.transactions_skipped = skipped,
                                         !.transactions_imported = 0]]
                        /\ accounts' = [accounts EXCEPT ![a] =
                               [@ EXCEPT !.last_sync_status = "success",
                                         !.last_sync_message =
                                             IF feed = <<>> THEN MsgNoTransactions
                                             ELSE MsgAllDuplicates(skipped),
                                         !.last_sync_imported = 0,
                                         !.last_synced_at = now,
                                         !.next_sync_at = now + loc[t].link_interval]]
                   ELSE UNCHANGED <<syncLogs, accounts>>
                /\ Finish(t)
                /\ imported' = Bump(cands)
           ELSE /\ pc' = [pc EXCEPT ![t] = "import"]
                /\ loc' = [loc EXCEPT ![t] =
                       [@ EXCEPT !.cands = cands, !.txs = to_import, !.skipped = skipped]]
                /\ UNCHANGED <<syncLogs, accounts, imported>>
        /\ UNCHANGED <<now, ledger, jobs, ynab, ops>>

\* the failure handler without its `return`: the run goes on to record the
\* batch, with no destination ids
SchedImportFailRecords(a) ==
    LET t == Sched(a)
    IN  /\ pc[t] = "import"
        /\ ledger' = CommitBatch(ledger, BatchRows(loc[t].txs, loc[t].link_y, <<>>))
        /\ Finish(t)
        /\ UNCHANGED <<now, accounts, syncLogs, jobs, ynab, imported, ops>>

\* lines 163-171: the gateway call raised
SchedImportFail(a) ==
    LET t == Sched(a)
    IN  /\ pc[t] = "import"
        /\ IF accounts[a].exists
           THEN /\ syncLogs' = [syncLogs EXCEPT ![loc[t].log] =
                       [@ EXCEPT !.status = "failed", !.error_message = "ynab",
                                 !.completed_at = now,
                                 !.transactions_found = Len(loc[t].cands),
                                 !.transactions_skipped = loc[t].skipped]]
                /\ accounts' = [accounts EXCEPT ![a] =
                       [@ EXCEPT !.last_sync_status = "failed",
                                 !.last_sync_message = <<"YNAB import failed: ", "ynab">>]]
           ELSE UNCHANGED <<syncLogs, accounts>>
        /\ Finish(t)
        /\ UNCHANGED <<now, ledger, jobs, ynab, imported, ops>>

\* lines 158-162: the gateway accepted the batch
SchedImport(a) ==
    LET t == Sched(a)
        y == loc[t].link_y
    IN  /\ pc[t] = "import"
        /\ ynab' = YnabAfter(y, loc[t].txs)
        /\ pc' = [pc EXCEPT ![t] = "record"]
        /\ loc' = [loc EXCEPT ![t] =
               [@ EXCEPT !.ids = import_transactions(y, loc[t].txs).transaction_ids,
                         !.dups = Len(import_transactions(y, loc[t].txs).duplicate_import_ids),
                         !.request = import_transactions(y, loc[t].txs).request]]
        /\ UNCHANGED <<now, accounts, syncLogs, ledger, jobs, imported, ops>>

\* a handler that stamps the sync time on the account when recording raised
SchedRecordStamps(a) ==
    LET t == Sched(a)
        rows == BatchRows(loc[t].txs, loc[t].link_y, loc[t].ids)
        recorded == CommitBatch(ledger, rows)
        recOk == UniqueOk(ledger, rows)
        n == Len(loc[t].ids)
    IN  /\ pc[t] = "record"
        /\ ledger' = recorded
        /\ syncLogs' = [syncLogs EXCEPT ![loc[t].log] =
               IF ~recOk THEN @
               ELSE IF ~accounts[a].exists
               THEN [@ EXCEPT !.transactions_found = Len(loc[t].cands),
                              !.transactions_skipped = loc[t].skipped]
               ELSE [@ EXCEPT !.status = "success", !.completed_at = now,
                              !.transactions_found = Len(loc[t].cands),
                              !.transactions_skipped = loc[t].skipped,
                              !.transactions_imported = n,
                              !.ynab_duplicates = loc[t].dups]]
        /\ accounts' = [accounts EXCEPT ![a] =
               IF ~accounts[a].exists THEN @
               ELSE IF ~recOk
               THEN [@ EXCEPT !.last_sync_status = "failed",
                              !.last_sync_message = MsgException,
                              !.last_sync_imported = 0,
                              !.last_synced_at = now]
               ELSE [@ EXCEPT !.last_sync_status = "success",
                              !.last_sync_message = MsgImported(n),
                              !.last_sync_imported = n,
                              !.last_synced_at = now,
                              !.next_sync_at = now + loc[t].link_interval]]
        /\ Finish(t)
        /\ imported' = Bump(loc[t].cands)
        /\ UNCHANGED <<now, jobs, ynab, ops>>

\* lines 173-206: record the batch, then the success bookkeeping; an exception
\* of either commit is caught by the handler of lines 197-204
SchedRecord(a) ==
    LET t == Sched(a)
        rows == BatchRows(loc[t].txs, loc[t].link_y, loc[t].ids)
        recorded == CommitBatch(ledger, rows)
        recOk == UniqueOk(ledger, rows)
        n == Len(loc[t].ids)
    IN  /\ pc[t] = "record"
        /\ ledger' = recorded
        /\ syncLogs' = [syncLogs EXCEPT ![loc[t].log] =
               IF ~recOk THEN @
               ELSE IF ~accounts[a].exists
               THEN [@ EXCEPT !.transactions_found = Len(loc[t].cands),
                              !.transactions_skipped = loc[t].skipped]
               ELSE [@ EXCEPT !.status = "success", !.completed_at = now,
                              !.transactions_found = Len(loc[t].cands),
                              !.transactions_skipped = loc[t].skipped,
                              !.transactions_imported = n,
                              !.ynab_duplicates = loc[t].dups]]
        /\ accounts' = [accounts EXCEPT ![a] =
               IF ~accounts[a].exists THEN @
               ELSE IF ~recOk
               THEN [@ EXCEPT !.last_sync_status = "failed",
                              !.last_sync_message = MsgException]
               ELSE [@ EXCEPT !.last_sync_status = "success",
                              !.last_sync_message = MsgImported(n),
                              !.last_sync_imported = n,
                              !.last_synced_at = now,
                              !.next_sync_at = now + loc[t].link_interval]]
        /\ Finish(t)
        /\ imported' = Bump(loc[t].cands)
        /\ UNCHANGED <<now, jobs, ynab, ops>>

(***************************************************************************)
(* sync_akahu_account (routers/akahu.py): the manual sync request          *)
(***************************************************************************)
\* lines 196-207: the request is accepted for a linked account
ManualStart(a) ==
    LET t == Manual(a)
        link == accounts[a]
    IN  /\ pc[t] = "idle"
        /\ ops < MaxOps
        /\ link.exists /\ link.ynab_account_id # ""
        /\ pc' = [pc EXCEPT ![t] = "fetch"]
        /\ loc' = [loc EXCEPT ![t] = [Idle EXCEPT !.link_y = link.ynab_account_id]]
        /\ ops' = ops + 1
        /\ UNCHANGED <<now, accounts, syncLogs, ledger, jobs, ynab, imported>>

\* lines 218-222: the fetch raised, the request ends with status 500
ManualFetchFail(a) ==
    LET t == Manual(a)
    IN  /\ pc[t] = "fetch"
        /\ Finish(t)
        /\ UNCHANGED <<now, accounts, syncLogs, ledger, jobs, ynab, imported, ops>>

\* lines 224-269: the fetch returned; filter against the ledger snapshot
ManualFetch(a, feed, skip_duplicates) ==
    LET t == Manual(a)
        keep == KeepFlags(feed, get_existing_hashes, skip_duplicates)
        to_import == ToImport(feed, a, keep)
        cands == SeqMap(LAMBDA tx : AkahuToCreate(tx, a), feed)
    IN  /\ pc[t] = "fetch"
        /\ IF to_import = <<>>
           THEN /\ Finish(t)
                /\ imported' = Bump(cands)
           ELSE /\ pc' = [pc EXCEPT ![t] = "import"]
                /\ loc' = [loc EXCEPT ![t] =
                       [@ EXCEPT !.cands = cands, !.txs = to_import,
                                 !.skipped = CountFalse(keep)]]
                /\ UNCHANGED imported
        /\ UNCHANGED <<now, accounts, syncLogs, ledger, jobs, ynab, ops>>

\* lines 279-283: the gateway call raised, the request ends with status 500
ManualImportFail(a) ==
    LET t == Manual(a)
    IN  /\ pc[t] = "import"
        /\ Finish(t)
        /\ UNCHANGED <<now, accounts, syncLogs, ledger, jobs, ynab, imported, ops>>

\* lines 273-278: the gateway accepted the batch
ManualImport(a) ==
    LET t == Manual(a)
        y == loc[t].link_y
    IN  /\ pc[t] = "import"
        /\ ynab' = YnabAfter(y, loc[t].txs)
        /\ pc' = [pc EXCEPT ![t] = "record"]
        /\ loc' = [loc EXCEPT ![t] =
               [@ EXCEPT !.ids = import_transactions(y, loc[t].txs).transaction_ids,
                         !.dups = Len(import_transactions(y, loc[t].txs).duplicate_import_ids),
                         !.request = import_transactions(y, loc[t].txs).request]]
        /\ UNCHANGED <<now, accounts, syncLogs, ledger, jobs, imported, ops>>

\* lines 285-302: record the batch, then stamp last_synced_at; an exception
\* of either commit ends the request with status 500
ManualRecord(a) ==
    LET t == Manual(a)
        rows == BatchRows(loc[t].txs, loc[t].link_y, loc[t].ids)
    IN  /\ pc[t] = "record"
        /\ ledger' = CommitBatch(ledger, rows)
        /\ accounts' = [accounts EXCEPT ![a] =
               IF accounts[a].exists /\ UniqueOk(ledger, rows)
               THEN [@ EXCEPT !.last_synced_at = now] ELSE @]
        /\ Finish(t)
        /\ imported' = Bump(loc[t].cands)
        /\ UNCHANGED <<now, syncLogs, jobs, ynab, ops>>

(***************************************************************************)
(* import_csv_transactions (routers/csv.py)                                *)
(***************************************************************************)
\* DeduplicationService.check_duplicates on the previews of parse_csv
check_duplicates(file) ==
    [i \in 1..Len(file) |->
        generate_transaction_hash(file[i].date, file[i].amount,
                                  file[i].payee, file[i].memo) \in get_existing_hashes]

\* the is_duplicate flags a request can carry: those of an earlier
\* /csv/parse of the file, taken when the ledger held no more than it does now
CsvFlags(file) ==
    { fl \in [1..Len(file) -> BOOLEAN] : \A i \in 1..Len(file) : fl[i] => check_duplicates(file)[i] }

\* lines 133-144: rows kept for import
CsvKeep(file, flags, skip_duplicates) ==
    [i \in 1..Len(file) |-> ~skip_duplicates \/ ~flags[i]]

\* lines 130-163: the request arrives; build the batch from the rows kept
CsvStart(file, skip_duplicates, y) ==
    /\ pc[Csv] = "idle"
    /\ ops < MaxOps
    /\ file # <<>>
    /\ ops' = ops + 1
    /\ \E flags \in CsvFlags(file) :
           LET cands == SeqMap(CsvToCreate, file)
               tx_creates == SeqFilter(CsvKeep(file, flags, skip_duplicates), cands)
           IN  IF tx_creates = <<>>
               THEN /\ imported' = Bump(cands)
                    /\ UNCHANGED <<pc, loc>>
               ELSE /\ pc' = [pc EXCEPT ![Csv] = "import"]
                    /\ loc' = [loc EXCEPT ![Csv] =
                           [Idle EXCEPT !.link_y = y, !.cands = cands, !.txs = tx_creates]]
                    /\ UNCHANGED imported
    /\ UNCHANGED <<now, accounts, syncLogs, ledger, jobs, ynab>>

\* line 165, the gateway call raised: the request ends with status 500
CsvImportFail ==
    /\ pc[Csv] = "import"
    /\ Finish(Csv)
    /\ UNCHANGED <<now, accounts, syncLogs, ledger, jobs, ynab, imported, ops>>

\* line 165: the gateway accepted the batch
CsvImport ==
    LET y == loc[Csv].link_y
    IN  /\ pc[Csv] = "import"
        /\ ynab' = YnabAfter(y, loc[Csv].txs)
        /\ pc' = [pc EXCEPT ![Csv] = "record"]
        /\ loc' = [loc EXCEPT ![Csv] =
               [@ EXCEPT !.ids = import_transactions(y, loc[Csv].txs).transaction_ids,
                         !.dups = Len(import_transactions(y, loc[Csv].txs).duplicate_import_ids),
                         !.request = import_transactions(y, loc[Csv].txs).request]]
        /\ UNCHANGED <<now, accounts, syncLogs, ledger, jobs, imported, ops>>

\* lines 167-180: record the batch
CsvRecord ==
    /\ pc[Csv] = "record"
    /\ ledger' = CommitBatch(ledger, BatchRows(loc[Csv].txs, loc[Csv].link_y, loc[Csv].ids))
    /\ Finish(Csv)
    /\ imported' = Bump(loc[Csv].cands)
    /\ UNCHANGED <<now, accounts, syncLogs, jobs, ynab, ops>>

(***************************************************************************)
(* Specification                                                           *)
(***************************************************************************)
Next ==
    \/ Tick
    \/ \E a \in Focus, y \in YAccts : Link(a, y)
    \/ \E a \in Focus : Unlink(a)
    \/ \E a \in Focus, e \in BOOLEAN, h \in ReqIntervals : SetSchedule(a, e, h)
    \/ \E a \in Focus : DisableSchedule(a)
    \/ \E a \in Focus : TimerFire(a)
    \/ \E a \in Focus : SchedStart(a)
    \/ \E a \in Focus : SchedFetchFail(a)
    \/ \E a \in Focus : \E feed \in Feeds(a) : SchedFetch(a, feed)
    \/ \E a \in Focus : SchedImportFail(a)
    \/ \E a \in Focus : SchedImport(a)
    \/ \E a \in Focus : SchedRecord(a)
    \/ \E a \in Focus : ManualStart(a)
    \/ \E a \in Focus : ManualFetchFail(a)
    \/ \E a \in Focus, s \in BOOLEAN : \E feed \in Feeds(a) : ManualFetch(a, feed, s)
    \/ \E a \in Focus : ManualImportFail(a)
    \/ \E a \in Focus : ManualImport(a)
    \/ \E a \in Focus : ManualRecord(a)
    \/ \E file \in CsvFiles, s \in BOOLEAN, y \in YAccts : CsvStart(file, s, y)
    \/ CsvImportFail
    \/ CsvImport
    \/ CsvRecord

\* one linked account through its whole life: link and schedule requests,
\* scheduled runs, manual syncs and CSV imports
Spec == Init /\ [][Next]_vars

NextTwo ==
    \/ Tick
    \/ \E a \in Accts : TimerFire(a)
    \/ \E a \in Accts : SchedStart(a)
    \/ \E a \in Accts : SchedFetchFail(a)
    \/ \E a \in Accts : \E feed \in Feeds(a) : SchedFetch(a, feed)
    \/ \E a \in Accts : SchedImportFail(a)
    \/ \E a \in Accts : SchedImport(a)
    \/ \E a \in Accts : SchedRecord(a)
    \/ \E file \in CsvFiles, s \in BOOLEAN, y \in YAccts : CsvStart(file, s, y)
    \/ CsvImportFail
    \/ CsvImport
    \/ CsvRecord

\* the scheduled runs of two accounts and CSV imports running side by side
SpecTwo == InitTwo /\ [][NextTwo]_vars

(***************************************************************************)
(* Properties                                                              *)
(***************************************************************************)
Running(t) == pc[t] # "idle"

\* the step is the last one of task t
Ends(t) == pc[t] # "idle" /\ pc'[t] = "idle"

HashCount(table, f) == Cardinality({ i \in 1..Len(table) : table[i].transaction_hash = f })

\* the rows of the table before the step are still there, unchanged
Kept == /\ Len(ledger') >= Len(ledger)
        /\ \A i \in 1..Len(ledger) : ledger'[i] = ledger[i]

\* C1: for every account at most one sync run is executing at any time; a
\* manual sync requested while the scheduled run is running does not start a
\* second concurrent run.
C1_SingleFlight ==
    \A a \in Accts : ~(Running(Sched(a)) /\ Running(Manual(a)))

\* C2: a candidate transaction that two finished import operations carried
\* (CSV import or account sync, in any combination) has exactly one Import
\* Record in the ledger.
C2_IdempotentImport ==
    \A f \in AllFingerprints : imported[f] >= 2 => HashCount(ledger, f) = 1

\* C3: a provider transaction that an earlier sync run recorded is, when a
\* later scheduled run fetches it again, skipped as a local duplicate and is
\* not put in the batch for the gateway.
C3_RefetchSkipped ==
    [][\A a \in Accts :
          (pc[Sched(a)] = "fetch" /\ pc'[Sched(a)] = "import") =>
             \A i \in 1..Len(loc'[Sched(a)].txs) :
                ~\E j \in 1..Len(ledger) :
                    /\ ledger[j].source = "akahu"
                    /\ ledger[j].source_transaction_id =
                           loc'[Sched(a)].txs[i].source_transaction_id]_vars

\* C4: no two Import Records have the same fingerprint, and no step removes
\* or changes a record that is already in the ledger: inserting a fingerprint
\* that is present fails or does nothing.
C4_UniqueFingerprint ==
    [][/\ \A i, j \in 1..Len(ledger') :
             i # j => ledger'[i].transaction_hash # ledger'[j].transaction_hash
       /\ Kept]_vars

\* a scheduled run of one account was refused the insert of a fingerprint
\* that a run of another account had recorded
C4_Witness ==
    \E a, b \in Accts :
        /\ a # b
        /\ accounts[a].last_sync_message = MsgException
        /\ \E j \in 1..Len(ledger) :
              /\ ledger[j].source_account = b
              /\ \E tx \in AkahuTxs(a) :
                    Fingerprint(AkahuToCreate(tx, a)) = ledger[j].transaction_hash

\* exactly one transaction of the batch has a fingerprint that is in the
\* table, and the others are pairwise distinct
OneConflict(table, txs) ==
    /\ Cardinality({ i \in 1..Len(txs) : HashCount(table, Fingerprint(txs[i])) > 0 }) = 1
    /\ \A i, j \in 1..Len(txs) : i # j => Fingerprint(txs[i]) # Fingerprint(txs[j])

\* C5: when record_batch is given N transactions of which exactly one has a
\* fingerprint already in the ledger, the other N-1 are recorded and the
\* existing records are unchanged.
C5_BatchFallback ==
    [][\A t \in Tasks :
          (pc[t] = "record" /\ Ends(t) /\ OneConflict(ledger, loc[t].txs)) =>
             /\ Kept
             /\ \A i \in 1..Len(loc[t].txs) :
                    HashCount(ledger', Fingerprint(loc[t].txs[i])) = 1]_vars

\* C6: a scheduled run that ends failed because the fetch or the gateway call
\* failed persists, for an account whose schedule is enabled, next_run_at =
\* completion time + interval.
C6_RescheduleOnFailure ==
    [][\A a \in Accts :
          (/\ pc[Sched(a)] \in {"fetch", "import"}
           /\ Ends(Sched(a))
           /\ syncLogs'[loc[Sched(a)].log].status = "failed"
           /\ accounts'[a].exists /\ accounts'[a].schedule_enabled) =>
             accounts'[a].next_sync_at = now + accounts'[a].schedule_interval_hours]_vars

\* C7: a run that finishes on an account whose schedule was disabled
\* meanwhile leaves the account unscheduled: next_run_at stays cleared and no
\* trigger is pending.
C7_DisabledStaysUnscheduled ==
    [][\A a \in Accts :
          (/\ pc[Sched(a)] \in {"fetch", "import", "record"}
           /\ Ends(Sched(a))
           /\ accounts[a].exists /\ ~accounts[a].schedule_enabled) =>
             /\ accounts'[a].next_sync_at = NoTime
             /\ jobs'[a] = NoJob]_vars

\* C8: every sync run that finishes, scheduled or manual, has a Sync Run Log
\* row with its trigger kind, and the row is in a terminal status.
C8_TerminalLogRow ==
    [][\A a \in Accts : \A kind \in {"sched", "manual"} :
          LET t == <<kind, a>>
          IN  (pc[t] \in {"fetch", "import", "record"} /\ Ends(t)) =>
                 /\ loc[t].log \in 1..Len(syncLogs')
                 /\ syncLogs'[loc[t].log].status \in {"success", "failed"}
                 /\ syncLogs'[loc[t].log].trigger =
                        (IF kind = "sched" THEN "scheduled" ELSE "manual")]_vars

\* C9: when record_batch raises in a scheduled run, the account's last-run
\* status ends as failed and the account is rescheduled with next_run_at =
\* completion time + interval.
C9_RescheduleOnException ==
    [][\A a \in Accts :
          (/\ pc[Sched(a)] = "record"
           /\ Ends(Sched(a))
           /\ ~UniqueOk(ledger, BatchRows(loc[Sched(a)].txs, loc[Sched(a)].link_y,
                                          loc[Sched(a)].ids))
           /\ accounts[a].exists /\ accounts[a].schedule_enabled) =>
             /\ accounts'[a].last_sync_status = "failed"
             /\ accounts'[a].next_sync_at = now + accounts'[a].schedule_interval_hours]_vars

\* C10: an operation whose gateway call failed leaves the ledger as it was:
\* a task changes the ledger only in its record step, which follows a
\* successful gateway call, and the step that handles the failure adds nothing.
C10_GatewayFailureLeavesLedger ==
    [][\A t \in Tasks : (pc[t] # "record" /\ pc'[t] # pc[t]) => ledger' = ledger]_vars

\* a scheduled run failed at the gateway while the ledger held records
C10_Witness ==
    /\ ledger # <<>>
    /\ \E i \in 1..Len(syncLogs) :
          /\ syncLogs[i].status = "failed"
          /\ syncLogs[i].error_message = "ynab"
          /\ syncLogs[i].transactions_found > 0

\* the fingerprints of the batch are new to the table and pairwise distinct
AllNew(table, txs, y) == UniqueOk(table, BatchRows(txs, y, <<>>))

\* C11: when the gateway call succeeded but reported some rows of the batch
\* as duplicates, every transaction of the batch (its fingerprints being new)
\* is still recorded in the ledger, and a scheduled run's log row counts the
\* gateway duplicates in ynab_duplicates, apart from transactions_skipped.
C11_GatewayDuplicatesRecorded ==
    [][\A t \in Tasks :
          (/\ pc[t] = "record" /\ Ends(t)
           /\ loc[t].dups > 0
           /\ AllNew(ledger, loc[t].txs, loc[t].link_y)) =>
             /\ \A i \in 1..Len(loc[t].txs) :
                    HashCount(ledger', Fingerprint(loc[t].txs[i])) = 1
             /\ (t[1] = "sched" /\ accounts[t[2]].exists) =>
                    /\ syncLogs'[loc[t].log].ynab_duplicates = loc[t].dups
                    /\ syncLogs'[loc[t].log].transactions_skipped = loc[t].skipped]_vars

\* the value record_imports_batch returns: 0 for an empty list, else
\* len(transactions)
record_imports_batch_result(txs) == IF txs = <<>> THEN 0 ELSE Len(txs)

\* C12: record_batch inserts exactly one Import Record per input transaction
\* (their fingerprints being new) whether destination_ids is empty or shorter
\* than the list: the positions without an id get a null destination id, and
\* the returned count is the number of records inserted.
C12_RecordBatchPads ==
    [][\A t \in Tasks :
          (/\ pc[t] = "record" /\ Ends(t)
           /\ AllNew(ledger, loc[t].txs, loc[t].link_y)) =>
             /\ Len(ledger') = Len(ledger) + Len(loc[t].txs)
             /\ record_imports_batch_result(loc[t].txs) = Len(ledger') - Len(ledger)
             /\ \A i \in 1..Len(loc[t].txs) :
                   /\ ledger'[Len(ledger) + i].transaction_hash = Fingerprint(loc[t].txs[i])
                   /\ i > Len(loc[t].ids) =>
                          ledger'[Len(ledger) + i].ynab_transaction_id = <<"null">>]_vars

\* C13: the destination id stored in the Import Record of a transaction of
\* the batch is null or the id the gateway created for that same transaction
\* (the one carrying its import key); an id created for one transaction is
\* never stored on the record of another.
C13_IdsAligned ==
    [][\A t \in Tasks :
          (pc[t] = "record" /\ Ends(t)) =>
             \A i \in 1..(Len(ledger') - Len(ledger)) :
                 ledger'[Len(ledger) + i].ynab_transaction_id \in
                     { <<"null">>, <<"id", loc[t].link_y, ImportIds(loc[t].txs)[i]>> }]_vars

(***************************************************************************)
(* Process restart (main.py lifespan, initialize_scheduler)                *)
(***************************************************************************)
\* the job store initialize_scheduler builds from the persisted rows:
\* a job for every row with schedule_enabled and a ynab_account_id
LoadedJobs ==
    [a \in Accts |->
        IF /\ accounts[a].exists
           /\ accounts[a].schedule_enabled
           /\ accounts[a].ynab_account_id # ""
        THEN [interval |-> accounts[a].schedule_interval_hours,
              next_run_time |-> now + accounts[a].schedule_interval_hours]
        ELSE NoJob]

\* a start that brings the scheduler up without reading the persisted rows
RestartNoReload ==
    /\ ops < MaxOps
    /\ ops' = ops + 1
    /\ pc' = [t \in Tasks |-> "idle"]
    /\ loc' = [t \in Tasks |-> Idle]
    /\ jobs' = [a \in Accts |-> NoJob]
    /\ UNCHANGED <<now, accounts, syncLogs, ledger, ynab, imported>>

\* the process stops (crash or shutdown: the MemoryJobStore and every task in
\* flight are lost, what was committed stays) and starts again
Restart ==
    /\ ops < MaxOps
    /\ ops' = ops + 1
    /\ pc' = [t \in Tasks |-> "idle"]
    /\ loc' = [t \in Tasks |-> Idle]
    /\ jobs' = LoadedJobs
    /\ UNCHANGED <<now, accounts, syncLogs, ledger, ynab, imported>>

NextBoot ==
    \/ Tick
    \/ Restart
    \/ \E a \in Focus, y \in LinkIds : Link(a, y)
    \/ \E a \in Focus : Unlink(a)
    \/ \E a \in Focus, e \in BOOLEAN, h \in ReqIntervals : SetSchedule(a, e, h)
    \/ \E a \in Focus, e \in BOOLEAN, h \in ReqIntervals : SetScheduleRejected(a, e, h)
    \/ \E a \in Focus : DisableSchedule(a)
    \/ \E a \in Focus : TimerFire(a)
    \/ \E a \in Focus : SchedStart(a)
    \/ \E a \in Focus : SchedFetchFail(a)
    \/ \E a \in Focus : \E feed \in Feeds(a) : SchedFetch(a, feed)
    \/ \E a \in Focus : SchedImportFail(a)
    \/ \E a \in Focus : SchedImport(a)
    \/ \E a \in Focus : SchedRecord(a)

\* one account under link and schedule requests, scheduled runs and restarts
\* of the process; time passes and the scheduler runs a job that is due
SpecBoot ==
    /\ Init
    /\ [][NextBoot]_vars
    /\ WF_vars(Tick)
    /\ \A a \in Focus : WF_vars(TimerFire(a))

\* the persisted row of the account asks for scheduled syncs
PersistedSchedule(a) ==
    /\ accounts[a].exists
    /\ accounts[a].schedule_enabled
    /\ accounts[a].ynab_account_id # ""

\* the next run of the job lies beyond what the exploration covers
BeyondHorizon(a) == ops >= MaxOps \/ jobs[a].next_run_time > MaxTime

\* the trigger of the account is armed with the persisted interval
Armed(a) ==
    /\ jobs[a] # NoJob
    /\ jobs[a].interval = accounts[a].schedule_interval_hours

\* C14: after every process start, the first one and each restart, every
\* account whose persisted row has the schedule enabled and a destination
\* has its trigger armed with the persisted interval; and an account in that
\* condition gets a scheduled run started, unless its schedule is disabled,
\* the account unlinked or the process restarted first.
C14_RestartKeepsSchedules ==
    /\ \A a \in Accts : PersistedSchedule(a) => Armed(a)
    /\ [][Restart => \A a \in Accts : (PersistedSchedule(a) => Armed(a))']_vars
    /\ \A a \in Accts :
          (PersistedSchedule(a) /\ Armed(a) /\ ~BeyondHorizon(a))
             ~> (Running(Sched(a)) \/ ~PersistedSchedule(a) \/ BeyondHorizon(a))

\* the process was restarted while a scheduled run was executing (its log
\* row stayed 'running'), and the account's trigger is armed again
C14_Witness ==
    \E a \in Accts :
        /\ PersistedSchedule(a)
        /\ accounts[a].last_sync_status = "running"
        /\ pc[Sched(a)] = "idle"
        /\ jobs[a] # NoJob
        /\ jobs[a].next_run_time = now + jobs[a].interval

(***************************************************************************)
(* The link and schedule requests over their whole input range             *)
(***************************************************************************)
NextAdmin ==
    \/ Tick
    \/ Restart
    \/ \E a \in Focus, y \in LinkIds : Link(a, y)
    \/ \E a \in Focus : Unlink(a)
    \/ \E a \in Focus, e \in BOOLEAN, h \in HoursRange : SetSchedule(a, e, h)
    \/ \E a \in Focus, e \in BOOLEAN, h \in HoursRange : SetScheduleRejected(a, e, h)
    \/ \E a \in Focus : DisableSchedule(a)

\* one account under link requests and schedule requests for every interval
\* of the accepted range, with restarts, while time passes
SpecAdmin == Init /\ [][NextAdmin]_vars

\* the step serves a request that disables the schedule of a
DisableStep(a) ==
    \/ DisableSchedule(a)
    \/ \E h \in HoursRange : SetSchedule(a, FALSE, h)

\* C15: a request that disables the schedule, in whatever state the account
\* is (no trigger, trigger armed, run executing), leaves schedule_enabled
\* false, next_run_at cleared and no trigger for the account; a trigger is
\* armed again only by a step that leaves the schedule enabled, and a
\* scheduled run starts only from an armed trigger.
C15_DisableUnschedules ==
    [][\A a \in Accts :
          /\ DisableStep(a) =>
                /\ ~accounts'[a].schedule_enabled
                /\ accounts'[a].next_sync_at = NoTime
                /\ jobs'[a] = NoJob
          /\ (jobs[a] = NoJob /\ jobs'[a] # NoJob) =>
                (accounts'[a].exists /\ accounts'[a].schedule_enabled)
          /\ (pc[Sched(a)] = "idle" /\ pc'[Sched(a)] = "start") => jobs[a] # NoJob]_vars

\* the schedule was disabled while a scheduled run of the account was
\* executing
C15_Witness ==
    \E a \in Accts :
        /\ Running(Sched(a))
        /\ accounts[a].exists
        /\ ~accounts[a].schedule_enabled
        /\ accounts[a].next_sync_at = NoTime
        /\ jobs[a] = NoJob

\* C16: a schedule request for an account that has no destination reference
\* (no row, or a row without a ynab_account_id) is refused, and the refusal
\* leaves the schedule fields of the account and the armed triggers as they
\* were.
C16_EnableNeedsDestination ==
    [][\A a \in Accts : \A e \in BOOLEAN : \A h \in HoursRange :
          /\ SetScheduleRejected(a, e, h) =>
                /\ accounts'[a].schedule_enabled = accounts[a].schedule_enabled
                /\ accounts'[a].schedule_interval_hours = accounts[a].schedule_interval_hours
                /\ accounts'[a].schedule_days_to_sync = accounts[a].schedule_days_to_sync
                /\ accounts'[a].next_sync_at = accounts[a].next_sync_at
                /\ jobs' = jobs
          /\ SetSchedule(a, e, h) =>
                (accounts[a].exists /\ accounts[a].ynab_account_id # "")]_vars

\* a schedule request was refused for a row whose destination reference is
\* empty
C16_Witness ==
    \E a \in Accts :
        /\ accounts[a].exists
        /\ accounts[a].ynab_account_id = ""
        /\ ops = MaxOps
        /\ ~accounts[a].schedule_enabled

\* the members of the allowed set nearest to h
Nearest(h) ==
    { v \in Range(ValidIntervals) :
        \A w \in Range(ValidIntervals) : Abs(v - h) <= Abs(w - h) }

\* C17: for every requested interval from 1 to 24 the interval the schedule
\* request persists is in {1,2,4,6,12,24}, is the requested value when that
\* is in the set, and otherwise is a member of the set nearest to it; so the
\* persisted interval of an account is in the set after every step.
C17_IntervalSnapped ==
    [][\A a \in Accts :
          /\ \A e \in BOOLEAN : \A h \in HoursRange :
                SetSchedule(a, e, h) =>
                   /\ accounts'[a].schedule_interval_hours \in Nearest(h)
                   /\ h \in Range(ValidIntervals) =>
                          accounts'[a].schedule_interval_hours = h
          /\ accounts'[a].schedule_interval_hours \in Range(ValidIntervals)]_vars

\* a schedule request (for 10 to 18 hours) was stored with the interval 12,
\* and the account is scheduled with it
C17_Witness ==
    \E a \in Accts :
        /\ accounts[a].exists
        /\ accounts[a].schedule_enabled
        /\ accounts[a].schedule_interval_hours = 12
        /\ jobs[a].interval = 12
        /\ accounts[a].next_sync_at = now + 12

\* C18: a request that enables the schedule of a linked account persists
\* next_run_at = request time + snapped interval and leaves schedule_enabled
\* true, and the account's one job in the store is armed with that interval,
\* due one interval after the request, in place of any job armed earlier.
C18_EnableSchedules ==
    [][\A a \in Accts : \A h \in HoursRange :
          SetSchedule(a, TRUE, h) =>
             /\ accounts'[a].schedule_enabled
             /\ accounts'[a].schedule_interval_hours = Snap(h)
             /\ accounts'[a].next_sync_at = now + Snap(h)
             /\ jobs'[a] = [interval |-> Snap(h), next_run_time |-> now + Snap(h)]
             /\ \A b \in Accts \ {a} : jobs'[b] = jobs[b]]_vars

\* the account ran on its hourly schedule and was then scheduled again with
\* another interval: the hourly job has been replaced
C18_Witness ==
    \E a \in Accts :
        /\ \E i \in 1..Len(syncLogs) :
              syncLogs[i].akahu_account_id = a /\ syncLogs[i].trigger = "scheduled"
        /\ accounts[a].schedule_enabled
        /\ accounts[a].schedule_interval_hours = 2
        /\ jobs[a] = [interval |-> 2, next_run_time |-> now + 2]

\* C19: a scheduled run that ends by one of its three success exits (nothing
\* fetched, everything fetched already known, batch imported and recorded),
\* on an account whose schedule is enabled, leaves last-run status success
\* and next_run_at = completion time + the account's interval.
C19_RescheduleOnSuccess ==
    [][\A a \in Accts :
          (/\ pc[Sched(a)] \in {"fetch", "record"}
           /\ Ends(Sched(a))
           /\ syncLogs'[loc[Sched(a)].log].status = "success"
           /\ accounts[a].exists /\ accounts[a].schedule_enabled) =>
             /\ accounts'[a].last_sync_status = "success"
             /\ accounts'[a].schedule_enabled
             /\ accounts'[a].next_sync_at = now + accounts'[a].schedule_interval_hours]_vars

\* the batch a task sends to the gateway in this step
Sends(t) == pc[t] = "import" /\ pc'[t] = "record"

\* occurrences of the (milliunits, day) pair of row i among the rows before it
Earlier(txs, i) ==
    Cardinality({ j \in 1..(i - 1) :
        /\ txs[j].amount * MilliPerUnit = txs[i].amount * MilliPerUnit
        /\ txs[j].date \div HoursPerDay = txs[i].date \div HoursPerDay })

\* C20: in every batch sent to the gateway the import key of a row is
\* YNAB:milliunits:day:k with k one more than the number of earlier rows of
\* that batch with the same amount and day; the keys of a batch are pairwise
\* distinct, rows with equal amount and day differ only in the counter, and
\* the first row of every batch has counter 1 whatever earlier batches sent.
C20_ImportKeys ==
    [][\A t \in Tasks :
          Sends(t) =>
             LET txs == loc[t].txs
                 keys == ImportIds(txs)
             IN  /\ Len(keys) = Len(txs)
                 /\ \A i \in 1..Len(txs) :
                       keys[i] = <<"YNAB", txs[i].amount * MilliPerUnit,
                                   txs[i].date \div HoursPerDay, Earlier(txs, i) + 1>>
                 /\ \A i, j \in 1..Len(txs) : i # j => keys[i] # keys[j]
                 /\ keys[1][4] = 1
                 /\ ynab' = ynab \cup { <<loc[t].link_y, keys[i]>> : i \in 1..Len(keys) }]_vars

\* a batch held two rows of the same amount and day with different payees
\* (keys :1 and :2), after an earlier batch had already used key :1
C20_Witness ==
    \E t \in Tasks :
        /\ pc[t] = "record"
        /\ Len(loc[t].txs) = 2
        /\ loc[t].txs[1].payee # loc[t].txs[2].payee
        /\ ImportIds(loc[t].txs)[1][4] = 1
        /\ ImportIds(loc[t].txs)[2][4] = 2
        /\ loc[t].dups = 1

\* C21: a scheduled run that fetched N transactions with pairwise distinct
\* fingerprints, none of them in the ledger, and whose batch the gateway
\* accepted whole with no duplicate reported, on an account whose row and
\* interval are those the run loaded, ends with a log row of status success
\* with transactions_found = N, transactions_imported = N and
\* transactions_skipped = 0; the ledger gains exactly N records and
\* next_sync_at = completion time + interval.
C21_AllNewImported ==
    [][\A a \in Accts :
          LET t == Sched(a)
              N == Len(loc[t].cands)
          IN  (/\ SchedRecord(a)
               /\ accounts[a].exists
               /\ accounts[a].schedule_interval_hours = loc[t].link_interval
               /\ AllNew(ledger, loc[t].cands, loc[t].link_y)
               /\ loc[t].dups = 0) =>
                 /\ syncLogs'[loc[t].log].status = "success"
                 /\ syncLogs'[loc[t].log].transactions_found = N
                 /\ syncLogs'[loc[t].log].transactions_imported = N
                 /\ syncLogs'[loc[t].log].transactions_skipped = 0
                 /\ Kept
                 /\ Len(ledger') = Len(ledger) + N
                 /\ \A i \in 1..N :
                       ledger'[Len(ledger) + i].source_transaction_id =
                           loc[t].cands[i].source_transaction_id
                 /\ accounts'[a].next_sync_at =
                        now + accounts'[a].schedule_interval_hours]_vars

\* a scheduled run fetched two new transactions and recorded both
C21_Witness ==
    \E i \in 1..Len(syncLogs) :
        /\ syncLogs[i].status = "success"
        /\ syncLogs[i].transactions_found = 2
        /\ syncLogs[i].transactions_imported = 2
        /\ syncLogs[i].transactions_skipped = 0
        /\ Len(ledger) = 2

\* the fetched rows whose fingerprint (of occurred-at, amount, payee, memo)
\* the ledger already holds
KnownRows(feed, a) ==
    { i \in 1..Len(feed) : Fingerprint(AkahuToCreate(feed[i], a)) \in get_existing_hashes }

\* C22: when k of the N rows a scheduled run fetched have a fingerprint that
\* is already in the ledger, the run counts transactions_skipped = k and puts
\* exactly the other N-k rows in the batch for the gateway.
C22_KnownFingerprintsSkipped ==
    [][\A a \in Accts : \A feed \in Feeds(a) :
          (SchedFetch(a, feed) /\ accounts[a].exists) =>
             LET t == Sched(a)
                 k == Cardinality(KnownRows(feed, a))
             IN  IF pc'[t] = "import"
                 THEN /\ loc'[t].skipped = k
                      /\ Len(loc'[t].txs) = Len(feed) - k
                      /\ \A i \in 1..Len(loc'[t].txs) :
                            Fingerprint(loc'[t].txs[i]) \notin get_existing_hashes
                 ELSE /\ k = Len(feed)
                      /\ syncLogs'[loc[t].log].transactions_skipped = k]_vars

\* the values a payee or a memo takes: absent, empty, or a text
HashTexts == {None, <<>>} \cup UNION { {tc.payee, tc.memo} : tc \in AllCreates }

HashDates == { tc.date : tc \in AllCreates }
HashAmounts == { tc.amount : tc \in AllCreates }

\* an absent text read as the empty string
Blank(s) == IF s = None THEN <<>> ELSE s

\* C23: the fingerprint is a function of (occurred-at, amount, payee, memo)
\* in which an absent payee or memo counts as the empty string, for both
\* fields together and for each alone; every Import Record, whenever and by
\* whichever path it was recorded, carries the fingerprint of its own four
\* fields so read.
C23_FingerprintDeterministic ==
    /\ \A d \in HashDates, m \in HashAmounts :
          /\ generate_hash(d, m, None, None) = generate_hash(d, m, <<>>, <<>>)
          /\ \A p, q \in HashTexts :
                /\ generate_hash(d, m, None, q) = generate_hash(d, m, <<>>, q)
                /\ generate_hash(d, m, p, None) = generate_hash(d, m, p, <<>>)
                /\ generate_hash(d, m, p, q) = generate_hash(d, m, Blank(p), Blank(q))
    /\ \A i \in 1..Len(ledger) :
          ledger[i].transaction_hash =
              generate_hash(ledger[i].date, ledger[i].amount,
                            Blank(ledger[i].payee), Blank(ledger[i].memo))

\* the ledger holds a record with an absent memo and a record with a memo
C23_Witness ==
    /\ \E i \in 1..Len(ledger) : ledger[i].memo = None
    /\ \E i \in 1..Len(ledger) : ledger[i].memo \notin {None, <<>>}

\* C24: the file-upload path and the ledger compute the same fingerprint for
\* the same four field values, and a scheduled run that fetches a transaction
\* whose occurred-at, amount, payee and memo are those of a record a CSV
\* import made does not put it in the batch for the gateway.
C24_CsvRecordRecognised ==
    [][/\ \A d \in HashDates, m \in HashAmounts : \A p, q \in HashTexts :
             generate_transaction_hash(d, m, p, q) = generate_hash(d, m, p, q)
       /\ \A a \in Accts :
             (pc[Sched(a)] = "fetch" /\ pc'[Sched(a)] = "import") =>
                \A i \in 1..Len(loc'[Sched(a)].txs) :
                   ~\E j \in 1..Len(ledger) :
                       /\ ledger[j].source = "csv"
                       /\ ledger[j].date = loc'[Sched(a)].txs[i].date
                       /\ ledger[j].amount = loc'[Sched(a)].txs[i].amount
                       /\ ledger[j].payee = loc'[Sched(a)].txs[i].payee
                       /\ ledger[j].memo = loc'[Sched(a)].txs[i].memo]_vars

\* the step is a failing end of the scheduled run of account a: the fetch
\* raised, the gateway call raised, or record_batch raised
FailedRun(a) ==
    \/ SchedFetchFail(a)
    \/ SchedImportFail(a)
    \/ SchedRecord(a) /\ ~UniqueOk(ledger, BatchRows(loc[Sched(a)].txs,
                                                     loc[Sched(a)].link_y,
                                                     loc[Sched(a)].ids))

\* C25: a step in which the scheduled run of account A fails, at the fetch,
\* at the gateway or by an exception while recording, changes nothing of any
\* other account B: B's row with its schedule fields, B's job and its next
\* run time, and the position of B's own run are as before, the clock and
\* the ledger are as before, and A's own job stays armed.
C25_FailureIsolated ==
    [][\A a, b \in Accts :
          (a # b /\ FailedRun(a)) =>
             /\ accounts'[b] = accounts[b]
             /\ jobs' = jobs
             /\ pc'[Sched(b)] = pc[Sched(b)]
             /\ loc'[Sched(b)] = loc[Sched(b)]
             /\ (Due(b))' = Due(b)
             /\ now' = now /\ ops' = ops
             /\ ledger' = ledger]_vars

\* the run of one account failed, and a run of the other account that
\* started after it ended with success with its job still armed
C25_Witness ==
    \E i, j \in 1..Len(syncLogs) :
        /\ syncLogs[i].akahu_account_id # syncLogs[j].akahu_account_id
        /\ syncLogs[i].status = "failed"
        /\ syncLogs[j].status = "success"
        /\ i < j
        /\ accounts[syncLogs[i].akahu_account_id].last_sync_status = "failed"
        /\ jobs[syncLogs[j].akahu_account_id] # NoJob

\* the batch the run of account a is about to record holds a fingerprint that
\* a run of another account recorded after this run had filtered
Overlap(a) ==
    \E i \in 1..Len(loc[Sched(a)].txs) : \E j \in 1..Len(ledger) :
        /\ ledger[j].source_account # a
        /\ ledger[j].source = "akahu"
        /\ ledger[j].transaction_hash = Fingerprint(loc[Sched(a)].txs[i])

\* C26: when the runs of two accounts both passed the filter with a
\* transaction of the same fingerprint, the run that records second is not
\* failed by the uniqueness conflict: it ends with status success, the shared
\* fingerprint has exactly one record, and every other transaction of its
\* batch is recorded.
C26_OverlapRecovered ==
    [][\A a \in Accts :
          (SchedRecord(a) /\ accounts[a].exists /\ Overlap(a)) =>
             /\ syncLogs'[loc[Sched(a)].log].status = "success"
             /\ accounts'[a].last_sync_status = "success"
             /\ Kept
             /\ \A i \in 1..Len(loc[Sched(a)].txs) :
                   HashCount(ledger', Fingerprint(loc[Sched(a)].txs[i])) = 1]_vars

\* C27: every sync log row is created with status running; a step changes
\* the status of a row only from running to success or failed; a row that is
\* success or failed is never changed again; no row is ever removed or
\* handed to another account; and completed_at is null exactly in the rows
\* whose status is running.
C27_LogRowLifecycle ==
    [][/\ Len(syncLogs') >= Len(syncLogs)
       /\ \A i \in 1..Len(syncLogs) :
             /\ syncLogs[i].status # "running" => syncLogs'[i] = syncLogs[i]
             /\ syncLogs'[i].status # syncLogs[i].status =>
                    /\ syncLogs[i].status = "running"
                    /\ syncLogs'[i].status \in {"success", "failed"}
             /\ syncLogs'[i].akahu_account_id = syncLogs[i].akahu_account_id
             /\ syncLogs'[i].started_at = syncLogs[i].started_at
       /\ \A i \in (Len(syncLogs) + 1)..Len(syncLogs') :
             syncLogs'[i].status = "running"
       /\ \A i \in 1..Len(syncLogs') :
             (syncLogs'[i].completed_at = NoTime) <=> (syncLogs'[i].status = "running")]_vars

\* a run ended with success and its log row, closed, is still there after
\* the account was unlinked
C27_Witness ==
    \E i \in 1..Len(syncLogs) :
        /\ syncLogs[i].status = "success"
        /\ syncLogs[i].completed_at # NoTime
        /\ syncLogs[i].transactions_found > 0
        /\ ~accounts[syncLogs[i].akahu_account_id].exists

(***************************************************************************)
(* Retried runs: every fetch returns the same transactions                 *)
(***************************************************************************)
\* what every fetch of the account returns, in the same order: the oldest
\* MaxFetch transactions of the history, the first two of which have the
\* same fingerprint, so that recording the batch fails after the gateway
\* accepted it
RetryFeed(a) == SubSeq(AkahuHistory(a), 1, MaxFetch)

NextRetry ==
    \/ Tick
    \/ Restart
    \/ \E a \in Focus : TimerFire(a)
    \/ \E a \in Focus : SchedStart(a)
    \/ \E a \in Focus : SchedFetchFail(a)
    \/ \E a \in Focus : SchedFetch(a, RetryFeed(a))
    \/ \E a \in Focus : SchedImportFail(a)
    \/ \E a \in Focus : SchedImport(a)
    \/ \E a \in Focus : SchedRecord(a)
    \/ \E a \in Focus : ManualStart(a)
    \/ \E a \in Focus : ManualFetchFail(a)
    \/ \E a \in Focus, s \in BOOLEAN : ManualFetch(a, RetryFeed(a), s)
    \/ \E a \in Focus : ManualImportFail(a)
    \/ \E a \in Focus : ManualImport(a)
    \/ \E a \in Focus : ManualRecord(a)

\* one account whose runs, scheduled and manual, fetch the same transactions
\* every time, with restarts of the process in between
SpecRetry == Init /\ [][NextRetry]_vars

\* the import keys the destination account y holds
Held(y) == { e[2] : e \in { x \in ynab : x[1] = y } }

\* C28: when a run sends its batch to the gateway after an earlier run of
\* the account had its batch accepted by the gateway and recorded nothing
\* (recording failed, or the process stopped before it), and the fetch is the
\* same as before, every row is sent with the key it had before: the
\* destination creates nothing, and it holds exactly one key for each
\* transaction.
C28_RetrySameKeys ==
    [][\A a \in Accts : \A t \in {Sched(a), Manual(a)} :
          (/\ Sends(t)
           /\ Held(loc[t].link_y) # {}
           /\ ledger = <<>>) =>
             /\ loc[t].txs = SeqMap(LAMBDA tx : AkahuToCreate(tx, a), RetryFeed(a))
             /\ Range(ImportIds(loc[t].txs)) = Held(loc[t].link_y)
             /\ ynab' = ynab
             /\ loc'[t].ids = <<>>
             /\ loc'[t].dups = Len(loc[t].txs)
             /\ Cardinality(Held(loc[t].link_y)) = Len(loc[t].txs)]_vars

\* a scheduled run had its batch accepted and failed to record it, and the
\* manual sync that followed has sent the same batch again
C28_Witness ==
    \E a \in Accts :
        /\ accounts[a].last_sync_message = MsgException
        /\ pc[Manual(a)] = "record"
        /\ loc[Manual(a)].dups = Len(loc[Manual(a)].txs)
        /\ Len(loc[Manual(a)].txs) >= 2
        /\ ledger = <<>>

(***************************************************************************)
(* Runs over transactions that carry no merchant and no description        *)
(***************************************************************************)
\* A history whose first two transactions have neither a merchant nor a
\* description (description=tx.get("description", ""), merchant absent) and
\* differ in the amount: for these the hash the filter loop tests is the
\* fingerprint that was stored.
PlainHistory(a) ==
    << [id |-> <<a, "p1">>, date |-> 1, amount |-> 10, merchant |-> None, description |-> <<>>],
       [id |-> <<a, "p2">>, date |-> 1, amount |-> 20, merchant |-> None, description |-> <<>>],
       AkahuHistory(a)[3] >>

PlainFeeds(a) == Windows(PlainHistory(a), MaxFetch)

NextRun ==
    \/ Tick
    \/ \E a \in Focus : TimerFire(a)
    \/ \E a \in Focus : SchedStart(a)
    \/ \E a \in Focus : SchedFetchFail(a)
    \/ \E a \in Focus : \E feed \in PlainFeeds(a) : SchedFetch(a, feed)
    \/ \E a \in Focus : SchedImportFail(a)
    \/ \E a \in Focus : SchedImport(a)
    \/ \E a \in Focus : SchedRecord(a)
    \/ \E a \in Focus : ManualStart(a)
    \/ \E a \in Focus : ManualFetchFail(a)
    \/ \E a \in Focus, s \in BOOLEAN : \E feed \in PlainFeeds(a) : ManualFetch(a, feed, s)
    \/ \E a \in Focus : ManualImportFail(a)
    \/ \E a \in Focus : ManualImport(a)
    \/ \E a \in Focus : ManualRecord(a)

\* one account, its scheduled runs and manual syncs, over that history
SpecRun == Init /\ [][NextRun]_vars

\* C29: a scheduled run whose fetch returns no transactions ends there, and
\* not as an error: its log row is closed with status success and
\* transactions_found = 0, the account's last-run status is success with the
\* message "No transactions found", nothing was sent to the gateway and the
\* ledger is as it was.
C29_EmptyFetchSucceeds ==
    [][\A a \in Accts :
          (SchedFetch(a, <<>>) /\ accounts[a].exists) =>
             LET t == Sched(a)
             IN  /\ pc'[t] = "idle"
                 /\ syncLogs'[loc[t].log].status = "success"
                 /\ syncLogs'[loc[t].log].transactions_found = 0
                 /\ syncLogs'[loc[t].log].transactions_imported = 0
                 /\ syncLogs'[loc[t].log].completed_at = now
                 /\ accounts'[a].last_sync_status = "success"
                 /\ accounts'[a].last_sync_message = <<"No transactions found">>
                 /\ accounts'[a].last_sync_imported = 0
                 /\ ynab' = ynab
                 /\ ledger' = ledger]_vars

\* a scheduled run found nothing to fetch on an account whose ledger already
\* holds a record
C29_Witness ==
    \E a \in Accts :
        /\ accounts[a].last_sync_message = <<"No transactions found">>
        /\ accounts[a].last_sync_status = "success"
        /\ pc[Sched(a)] = "idle"
        /\ Len(ledger) > 0
        /\ \E i \in 1..Len(syncLogs) :
              /\ syncLogs[i].akahu_account_id = a
              /\ syncLogs[i].status = "success"
              /\ syncLogs[i].transactions_found = 0

\* C30: a scheduled run that fetched transactions and whose filter loop kept
\* none of them (to_import empty) ends there: its log row is closed with
\* status success, transactions_skipped = transactions_found = the number
\* fetched and transactions_imported = 0, the account's message states that
\* number of duplicates, nothing was sent to the gateway and the ledger is as
\* it was.
C30_AllDuplicatesSucceeds ==
    [][\A a \in Accts : \A feed \in PlainFeeds(a) :
          (/\ SchedFetch(a, feed)
           /\ feed # <<>>
           /\ ToImport(feed, a, KeepFlags(feed, get_existing_hashes, TRUE)) = <<>>
           /\ accounts[a].exists) =>
             LET t == Sched(a)
             IN  /\ pc'[t] = "idle"
                 /\ syncLogs'[loc[t].log].status = "success"
                 /\ syncLogs'[loc[t].log].transactions_found = Len(feed)
                 /\ syncLogs'[loc[t].log].transactions_skipped = Len(feed)
                 /\ syncLogs'[loc[t].log].transactions_imported = 0
                 /\ syncLogs'[loc[t].log].completed_at = now
                 /\ accounts'[a].last_sync_status = "success"
                 /\ accounts'[a].last_sync_message =
                        <<"All ", Len(feed), " transactions were duplicates">>
                 /\ accounts'[a].last_sync_imported = 0
                 /\ ynab' = ynab
                 /\ ledger' = ledger]_vars

\* a scheduled run fetched two transactions, both recorded before, and
\* ended with both skipped
C30_Witness ==
    \E a \in Accts : \E i \in 1..Len(syncLogs) :
        /\ syncLogs[i].akahu_account_id = a
        /\ syncLogs[i].status = "success"
        /\ syncLogs[i].transactions_found = 2
        /\ syncLogs[i].transactions_skipped = 2
        /\ syncLogs[i].transactions_imported = 0
        /\ accounts[a].last_sync_message = <<"All ", 2, " transactions were duplicates">>
        /\ Len(ledger) = 2

(***************************************************************************)
(* The gateway client called on its own (YNABClient.import_transactions)   *)
(***************************************************************************)
\* the transaction lists a caller can pass: nothing, or rows of a statement
\* or of an account's history
GatewayInputs ==
    UNION { Windows(SeqMap(LAMBDA tx : AkahuToCreate(tx, a), AkahuHistory(a)), MaxFetch) : a \in Focus }
      \cup Windows(SeqMap(CsvToCreate, CsvStatement), MaxFetch)

\* a caller passes txs to import_transactions for destination account y and
\* gets the result
ImportCall(y, txs) ==
    LET result == import_transactions(y, txs)
    IN  /\ pc[Csv] = "idle"
        /\ ops < MaxOps
        /\ ops' = ops + 1
        /\ ynab' = IF result.request = NoRequest THEN ynab ELSE YnabAfter(y, txs)
        /\ pc' = [pc EXCEPT ![Csv] = "called"]
        /\ loc' = [loc EXCEPT ![Csv] =
               [Idle EXCEPT !.link_y = y, !.txs = txs,
                            !.ids = result.transaction_ids,
                            !.dups = Len(result.duplicate_import_ids),
                            !.request = result.request]]
        /\ UNCHANGED <<now, accounts, syncLogs, ledger, jobs, imported>>

\* the caller is done with the result
ImportReturn ==
    /\ pc[Csv] = "called"
    /\ Finish(Csv)
    /\ UNCHANGED <<now, accounts, syncLogs, ledger, jobs, ynab, imported, ops>>

NextGateway ==
    \/ \E y \in YAccts, txs \in GatewayInputs : ImportCall(y, txs)
    \/ ImportReturn

\* calls of the gateway client, one after the other, on any list of rows
SpecGateway == Init /\ [][NextGateway]_vars

\* C31: import_transactions called with an empty list returns no created id
\* and no duplicate import key, and sends no request to the ledger provider:
\* what the destination holds is unchanged.
C31_EmptyBatchNoCall ==
    [][\A y \in YAccts :
          ImportCall(y, <<>>) =>
             /\ loc'[Csv].ids = <<>>
             /\ loc'[Csv].dups = 0
             /\ import_transactions(y, <<>>).duplicate_import_ids = <<>>
             /\ loc'[Csv].request = NoRequest
             /\ ynab' = ynab]_vars

\* the client was called with an empty list after an earlier call had
\* created transactions at the destination
C31_Witness ==
    /\ pc[Csv] = "called"
    /\ loc[Csv].txs = <<>>
    /\ loc[Csv].request = NoRequest
    /\ ynab # {}

\* C32: the batch a sync run builds holds at most one transaction per
\* fingerprint, so that recording it never breaks the uniqueness of the
\* fingerprint by itself: a run whose batch the gateway accepted, on a ledger
\* holding none of its fingerprints, records it.
C32_BatchDistinctFingerprints ==
    [][\A a \in Accts : \A t \in {Sched(a), Manual(a)} :
          /\ (pc[t] = "fetch" /\ pc'[t] = "import") =>
                \A i, j \in 1..Len(loc'[t].txs) :
                   i # j => Fingerprint(loc'[t].txs[i]) # Fingerprint(loc'[t].txs[j])
          /\ (/\ pc[t] = "record" /\ Ends(t)
              /\ \A i \in 1..Len(loc[t].txs) :
                    HashCount(ledger, Fingerprint(loc[t].txs[i])) = 0) =>
                \A i \in 1..Len(loc[t].txs) :
                    HashCount(ledger', Fingerprint(loc[t].txs[i])) = 1]_vars

\* C33: every armed trigger belongs to an existing linked account: once an
\* account is unlinked, no job for it is left in the scheduler.
C33_NoTriggerWithoutAccount ==
    \A a \in Accts : jobs[a] # NoJob => accounts[a].exists

\* C34: a row is never sent to the gateway under an import key that the
\* destination holds for a transaction of another fingerprint: when a batch
\* is sent, every record whose destination transaction was created under the
\* key of a row of the batch has that row's fingerprint.
C34_KeysNotShared ==
    [][\A t \in Tasks :
          Sends(t) =>
             \A i \in 1..Len(loc[t].txs) : \A j \in 1..Len(ledger) :
                ledger[j].ynab_transaction_id =
                    <<"id", loc[t].link_y, ImportIds(loc[t].txs)[i]>>
                  => ledger[j].transaction_hash = Fingerprint(loc[t].txs[i])]_vars

\* C35: after a start of the process, when no run is executing, no account
\* has last-run status running and no sync log row has status running,
\* whatever run the stop interrupted.
C35_RestartClearsRunning ==
    [][Restart =>
          /\ \A a \in Accts : accounts'[a].last_sync_status # "running"
          /\ \A i \in 1..Len(syncLogs') : syncLogs'[i].status # "running"]_vars

(***************************************************************************)
(* Schedule requests within one running process                            *)
(***************************************************************************)
NextSchedule ==
    \/ Tick
    \/ \E a \in Focus, y \in LinkIds : Link(a, y)
    \/ \E a \in Focus, e \in BOOLEAN, h \in HoursRange : SetSchedule(a, e, h)
    \/ \E a \in Focus, e \in BOOLEAN, h \in ReqIntervals : SetScheduleRejected(a, e, h)
    \/ \E a \in Focus : DisableSchedule(a)
    \/ \E a \in Focus : TimerFire(a)
    \/ \E a \in Focus : SchedStart(a)
    \/ \E a \in Focus : SchedFetchFail(a)
    \/ \E a \in Focus : SchedFetch(a, <<>>)

\* one account in a process that keeps running: link and schedule requests
\* in any order, and scheduled runs that find nothing to fetch or fail
SpecSchedule == Init /\ [][NextSchedule]_vars

\* C36: a linked account has a job in the scheduler exactly when its
\* persisted schedule_enabled flag is true, one job at most, and the job's
\* interval is the persisted interval; an account that was never linked has
\* no job.
C36_TriggerMatchesFlag ==
    \A a \in Accts :
        /\ accounts[a].exists =>
              /\ accounts[a].schedule_enabled <=> jobs[a] # NoJob
              /\ jobs[a] # NoJob =>
                    jobs[a].interval = accounts[a].schedule_interval_hours
        /\ ~accounts[a].exists => jobs[a] = NoJob

\* an account was enabled again with another interval at hour 1, after its
\* first job had fired
C36_Witness ==
    \E a \in Accts :
        /\ accounts[a].schedule_enabled
        /\ accounts[a].schedule_interval_hours = 12
        /\ jobs[a] = [interval |-> 12, next_run_time |-> 13]
        /\ Len(syncLogs) > 0

\* C37: every linked account whose schedule_enabled flag is true has a
\* non-empty ynab_account_id.
C37_EnabledHasDestination ==
    \A a \in Accts :
        accounts[a].exists /\ accounts[a].schedule_enabled =>
            accounts[a].ynab_account_id # ""

\* C38: a CSV import requested with skip_duplicates puts in the batch for the
\* gateway no row whose fingerprint is in the ledger when the request is
\* served, whatever is_duplicate flags the submitted rows carry.
C38_CsvSkipsKnown ==
    [][\A file \in CsvFiles, y \in YAccts :
          (CsvStart(file, TRUE, y) /\ pc'[Csv] = "import") =>
             \A i \in 1..Len(loc'[Csv].txs) :
                Fingerprint(loc'[Csv].txs[i]) \notin get_existing_hashes]_vars

\* the step ends a run of account a with success: a scheduled run whose log
\* row is closed as success, or a manual sync that recorded its batch
SuccessEnd(a) ==
    \/ /\ Ends(Sched(a))
       /\ loc[Sched(a)].log \in 1..Len(syncLogs')
       /\ syncLogs'[loc[Sched(a)].log].status = "success"
    \/ /\ pc[Manual(a)] = "record" /\ Ends(Manual(a))
       /\ Len(ledger') > Len(ledger)

\* C39: last_synced_at and last_sync_imported of an account change only in
\* the step that ends a run of that account with success; the step that ends
\* a scheduled run as failed (the fetch raised, the gateway call raised, or
\* recording raised) leaves both as they were, and so does every other step.
C39_SyncStampOnlyOnSuccess ==
    [][\A a \in Accts :
          (accounts[a].exists /\ accounts'[a].exists) =>
             /\ FailedRun(a) =>
                   /\ accounts'[a].last_synced_at = accounts[a].last_synced_at
                   /\ accounts'[a].last_sync_imported = accounts[a].last_sync_imported
             /\ (\/ accounts'[a].last_synced_at # accounts[a].last_synced_at
                 \/ accounts'[a].last_sync_imported # accounts[a].last_sync_imported)
                   => SuccessEnd(a)]_vars

\* an account synced with success at hour 0 keeps that time after its
\* scheduled run of hour 1 failed
C39_Witness ==
    \E a \in Accts :
        /\ accounts[a].last_synced_at = 0
        /\ now = 1
        /\ accounts[a].last_sync_status = "failed"
        /\ pc[Sched(a)] = "idle"

====
